---- MODULE Spec2Model ----
(***************************************************************************)
(* The Caffeine Machine chat relay: the Cloudflare Pages Function          *)
(* (functions/api/chat.js: onRequestPost, onRequestOptions) and the        *)
(* Cloudflare Worker (worker.js: fetch).  One inbound request is followed  *)
(* from its arrival to its response, or to the exception that escapes the  *)
(* handler.  The handlers suspend at their awaits: request.json(), the     *)
(* upstream fetch() and the read of the upstream body; each action is the  *)
(* synchronous run of code between two awaits.  The chat widget of the     *)
(* page (handleSend, getBotResponse) is modelled the same way, under its   *)
(* own specification, ClientSpec.                                          *)
(***************************************************************************)
EXTENDS Integers, Sequences, FiniteSets, TLC

\* Longest history array a request carries (one more than the trimming window).
MaxHistLen == 11
\* Most malformed entries one history array carries.
MaxMalformed == 1
\* Most messages the visitor sends from the chat widget.
MaxSends == 3
\* history.slice(-10): the trimming window of both variants.
HistoryLimit == 10

----------------------------------------------------------------------------
(* JSON / JavaScript values.  A value is [t |-> type, v |-> content], the  *)
(* content always a string so that any two values can be compared.         *)

Undefined == [t |-> "undefined", v |-> ""]
Null == [t |-> "null", v |-> ""]
Str(s) == [t |-> "string", v |-> s]
Num(s) == [t |-> "number", v |-> s]
\* An array of one part { text: s }.
Parts(s) == [t |-> "array", v |-> s]

\* JavaScript truthiness, as `!x`, `if (x)` and `a && b` use it.
Truthy(x) ==
    CASE x.t = "undefined" -> FALSE
      [] x.t = "null" -> FALSE
      [] x.t = "string" -> x.v # ""
      [] x.t = "number" -> x.v # "0"
      [] OTHER -> TRUE

\* The text a value contributes to { text: x }: a string's content, else the
\* name of its type (the payload then holds no string there).
TextOf(x) == IF x.t = "string" THEN x.v ELSE x.t

\* Destructuring default `name = dflt`: applies only to undefined.
Default(x, dflt) == IF x.t = "undefined" THEN dflt ELSE x

\* Array.prototype.slice(k) on a sequence, k negative counting from the end.
Slice(s, k) ==
    LET from == IF k < 0
                THEN (IF Len(s) + k < 0 THEN 0 ELSE Len(s) + k)
                ELSE (IF k > Len(s) THEN Len(s) ELSE k)
    IN  SubSeq(s, from + 1, Len(s))

----------------------------------------------------------------------------
(* History entries.                                                        *)

\* A well-formed turn, its single part's text naming its position.
GoodTurn(i) ==
    [t |-> "object",
     role |-> Str(IF i % 2 = 1 THEN "user" ELSE "model"),
     parts |-> Parts(ToString(i))]

NullTurn == [t |-> "null", role |-> Undefined, parts |-> Undefined]
NumberTurn == [t |-> "number", role |-> Undefined, parts |-> Undefined]
NoRoleTurn == [t |-> "object", role |-> Undefined, parts |-> Parts("x")]
NoPartsTurn == [t |-> "object", role |-> Str("user"), parts |-> Undefined]
StringPartsTurn == [t |-> "object", role |-> Str("user"), parts |-> Str("x")]

MalformedTurns ==
    {NullTurn, NumberTurn, NoRoleTurn, NoPartsTurn, StringPartsTurn}

HistoryArrays ==
    UNION { UNION { { [i \in 1..n |-> IF i \in S THEN f[i] ELSE GoodTurn(i)] :
                        f \in [S -> MalformedTurns] } :
                    S \in {T \in SUBSET (1..n) : Cardinality(T) <= MaxMalformed} } :
            n \in 0..MaxHistLen }

\* The history field: absent, null, a string, or an array of entries.
HistoryValues ==
    { [t |-> "undefined", turns |-> <<>>],
      [t |-> "null", turns |-> <<>>],
      [t |-> "string", turns |-> <<>>] }
    \cup { [t |-> "array", turns |-> h] : h \in HistoryArrays }

----------------------------------------------------------------------------
(* Requests and environments.                                              *)

MessageValues == {Undefined, Str(""), Num("7"), Str("hi")}
SystemPromptValues == {Undefined, Str(""), Str("persona")}
ApiKeyValues == {Undefined, Str("key")}

\* What request.json() yields: a rejection (kind "unparsable") or a JSON value.
NonObjectBodies ==
    { [kind |-> k, message |-> Undefined,
       history |-> [t |-> "undefined", turns |-> <<>>],
       systemPrompt |-> Undefined] :
      k \in {"unparsable", "null", "number", "string", "array"} }

ObjectBodies ==
    { [kind |-> "object", message |-> m, history |-> h, systemPrompt |-> s] :
      m \in MessageValues, h \in HistoryValues, s \in SystemPromptValues }

Bodies == NonObjectBodies \cup ObjectBodies

NoBody ==
    [kind |-> "none", message |-> Undefined,
     history |-> [t |-> "undefined", turns |-> <<>>],
     systemPrompt |-> Undefined]

----------------------------------------------------------------------------
(* Responses.                                                              *)

AllowOrigin == <<"Access-Control-Allow-Origin", "*">>
AllowMethods == <<"Access-Control-Allow-Methods", "POST, OPTIONS">>
AllowHeaders == <<"Access-Control-Allow-Headers", "Content-Type">>
ContentTypeJson == <<"Content-Type", "application/json">>
\* The Content-Type the runtime gives a Response built from a string body.
ContentTypeText == <<"Content-Type", "text/plain;charset=UTF-8">>

\* chat.js, onRequestPost: corsHeaders.
corsHeaders == {AllowOrigin, AllowMethods, AllowHeaders, ContentTypeJson}
\* The headers of both variants' preflight responses.
preflightHeaders == {AllowOrigin, AllowMethods, AllowHeaders}
\* worker.js: the headers of the Worker's JSON responses.
workerJsonHeaders == {ContentTypeJson, AllowOrigin}

NoDetails == [kind |-> "none", v |-> ""]

\* A response body.  In a field, "" (0 for upstatus) says the field is absent.
EmptyBody ==
    [kind |-> "empty", error |-> "", reply |-> "", details |-> NoDetails,
     upstatus |-> 0, finishReason |-> ""]
TextBody(s) == [EmptyBody EXCEPT !.kind = "text", !.error = s]
ErrorBody(e) == [EmptyBody EXCEPT !.kind = "json", !.error = e]
ReplyBody(r) == [EmptyBody EXCEPT !.kind = "json", !.reply = r]

NoResponse == [status |-> 0, headers |-> {}, body |-> EmptyBody]

\* The message of the exception the Worker's catch block reports.
TypeErrorMessage == "TypeError"
SyntaxErrorMessage == "SyntaxError"
NetworkErrorMessage == "fetch failed"

WorkerFallbackReply == "I'm sorry, I couldn't brew a response right now."

----------------------------------------------------------------------------
(* The upstream provider: an opaque network dependency.                    *)

\* The statuses the upstream answers with; ok is 200..299.
UpstreamStatuses == {200, 429, 503}
Ok(status) == status >= 200 /\ status <= 299

\* An upstream body: whether reading it succeeds, its text, whether the text
\* is JSON, and what the JSON holds at candidates[0].
UBody(read, text, json, isNull, hasCandidate, partText, finishReason) ==
    [read |-> read, text |-> text, json |-> json, isNull |-> isNull,
     hasCandidate |-> hasCandidate, partText |-> partText,
     finishReason |-> finishReason]

UpstreamBodies ==
    { UBody(FALSE, "", FALSE, FALSE, FALSE, Undefined, Undefined),
      UBody(TRUE, "<html>", FALSE, FALSE, FALSE, Undefined, Undefined),
      UBody(TRUE, "null", TRUE, TRUE, FALSE, Undefined, Undefined),
      UBody(TRUE, "{error}", TRUE, FALSE, FALSE, Undefined, Undefined),
      UBody(TRUE, "{safety}", TRUE, FALSE, TRUE, Undefined, Str("SAFETY")),
      UBody(TRUE, "{bare}", TRUE, FALSE, TRUE, Undefined, Undefined),
      UBody(TRUE, "{blank}", TRUE, FALSE, TRUE, Str(""), Str("STOP")),
      UBody(TRUE, "{reply}", TRUE, FALSE, TRUE, Str("Try our Coffee Flight!"), Str("STOP")) }

NoUpstream == [threw |-> FALSE, status |-> 0]
NoUBody == UBody(FALSE, "-", FALSE, FALSE, FALSE, Undefined, Undefined)

----------------------------------------------------------------------------
(* State.                                                                  *)

VARIABLES
    variant,     \* "pages" or "worker": the deployment that received the request
    method,      \* the request's HTTP method
    body,        \* what request.json() yields for this request
    apiKey,      \* env.API_KEY_caffine
    pc,          \* "idle", "json", "fetch", "read", "done" or "crashed"
    contents,    \* the contents array handed to the upstream fetch
    calls,       \* outbound upstream calls issued for this request
    upstream,    \* what the upstream fetch resolved to
    ubody,       \* the upstream body the handler read
    response,    \* the response returned to the caller
    responses,   \* how many responses the handler returned
    conversationHistory,  \* the chat widget's conversationHistory array
    messages,    \* the bubbles appendMsg put into the chat panel
    botCalls     \* the widget's getBotResponse activations, in the order started

serverVars == <<variant, method, body, apiKey, pc, contents, calls, upstream,
                ubody, response, responses>>
clientVars == <<conversationHistory, messages, botCalls>>
vars == <<variant, method, body, apiKey, pc, contents, calls, upstream, ubody,
          response, responses, conversationHistory, messages, botCalls>>

Init ==
    /\ variant = "none"
    /\ method = "none"
    /\ body = NoBody
    /\ apiKey = Undefined
    /\ pc = "idle"
    /\ contents = <<>>
    /\ calls = 0
    /\ upstream = NoUpstream
    /\ ubody = NoUBody
    /\ response = NoResponse
    /\ responses = 0
    /\ conversationHistory = <<>>
    /\ messages = <<>>
    /\ botCalls = <<>>

\* `return new Response(...)`.
Respond(status, headers, b) ==
    /\ pc' = "done"
    /\ response' = [status |-> status, headers |-> headers, body |-> b]
    /\ responses' = responses + 1

\* An exception no try block of the handler catches.
Crash ==
    /\ pc' = "crashed"
    /\ UNCHANGED <<response, responses>>

----------------------------------------------------------------------------
(* Building the contents array.                                            *)

Turn(role, parts) == [role |-> role, parts |-> parts]

\* Reading turn.role throws a TypeError when the entry is null.
ThrowsOnRead(turn) == turn.t = "null"

\* chat.js: if (turn.role && Array.isArray(turn.parts)).
PagesKeepsTurn(turn) == Truthy(turn.role) /\ turn.parts.t = "array"

\* worker.js: if (turn.role && turn.parts).
WorkerKeepsTurn(turn) == Truthy(turn.role) /\ Truthy(turn.parts)

\* chat.js: for (const turn of trimmedHistory) { ... contents.push(...) }.
RECURSIVE PagesPushHistory(_, _)
PagesPushHistory(acc, trimmed) ==
    IF trimmed = <<>> THEN acc
    ELSE PagesPushHistory(
             IF PagesKeepsTurn(Head(trimmed))
             THEN Append(acc, Turn(Head(trimmed).role, Head(trimmed).parts))
             ELSE acc,
             Tail(trimmed))

\* worker.js: history.slice(-10).forEach(turn => { ... contents.push(...) }).
RECURSIVE WorkerPushHistory(_, _)
WorkerPushHistory(acc, trimmed) ==
    IF trimmed = <<>> THEN acc
    ELSE WorkerPushHistory(
             IF WorkerKeepsTurn(Head(trimmed))
             THEN Append(acc, Turn(Head(trimmed).role, Head(trimmed).parts))
             ELSE acc,
             Tail(trimmed))

PagesAck == "Understood! I'm ready to assist as the Caffeine Machine AI barista."
BARISTA_PROMPT == "You are a friendly barista at Caffeine Machine in Las Vegas."
WorkerAck == "Got it! I'll keep it simple and friendly, like a real chat."

\* chat.js: the history the loop walks; a non-array history is skipped.
PagesTrimmedHistory(history) ==
    IF history.t = "array" THEN Slice(history.turns, -HistoryLimit) ELSE <<>>

\* chat.js: a null entry among the walked ones throws at turn.role.
PagesHistoryThrows(history) ==
    \E i \in 1..Len(PagesTrimmedHistory(history)) :
        ThrowsOnRead(PagesTrimmedHistory(history)[i])

\* chat.js: the contents array built from message, history and systemPrompt.
PagesContents(message, history, systemPrompt) ==
    LET primed == IF Truthy(systemPrompt)
                  THEN << Turn(Str("user"), Parts(TextOf(systemPrompt))),
                          Turn(Str("model"), Parts(PagesAck)) >>
                  ELSE << >>
        withHistory == PagesPushHistory(primed, PagesTrimmedHistory(history))
    IN  Append(withHistory, Turn(Str("user"), Parts(TextOf(message))))

\* worker.js: history.slice(-10).forEach(...) throws unless history is an array
\* free of null entries among the walked ones: null and other non-arrays have
\* no slice method, and a string's slice is a string, which has no forEach.
WorkerHistoryThrows(history) ==
    \/ history.t # "array"
    \/ \E i \in 1..Len(Slice(history.turns, -HistoryLimit)) :
           ThrowsOnRead(Slice(history.turns, -HistoryLimit)[i])

\* worker.js: the contents array built from message and history.
WorkerContents(message, history) ==
    LET primed == << Turn(Str("user"), Parts(BARISTA_PROMPT)),
                     Turn(Str("model"), Parts(WorkerAck)) >>
        withHistory == WorkerPushHistory(primed, Slice(history.turns, -HistoryLimit))
    IN  Append(withHistory, Turn(Str("user"), Parts(TextOf(message))))

\* const { history = [] } = body.
HistoryOrDefault(history) ==
    IF history.t = "undefined" THEN [t |-> "array", turns |-> <<>>] ELSE history

----------------------------------------------------------------------------
(* The Pages Function: functions/api/chat.js.                              *)

\* onRequestOptions: the preflight response.
OnRequestOptions ==
    /\ pc = "idle"
    /\ UNCHANGED clientVars
    /\ variant' = "pages"
    /\ method' = "OPTIONS"
    /\ \E b \in NonObjectBodies, k \in ApiKeyValues : body' = b /\ apiKey' = k
    /\ Respond(204, preflightHeaders, EmptyBody)
    /\ UNCHANGED <<contents, calls, upstream, ubody>>

\* onRequestPost is entered and awaits request.json().
OnRequestPost ==
    /\ pc = "idle"
    /\ UNCHANGED clientVars
    /\ variant' = "pages"
    /\ method' = "POST"
    /\ \E b \in Bodies, k \in ApiKeyValues : body' = b /\ apiKey' = k
    /\ pc' = "json"
    /\ UNCHANGED <<contents, calls, upstream, ubody, response, responses>>

\* if (!message || typeof message !== 'string').
PagesMessageInvalid(message) == ~Truthy(message) \/ message.t # "string"

\* The key check written as `apiKey === null`: an unset secret passes it.
PagesKeyMissingNullOnly(key) == key.t = "null"

\* if (!apiKey).
PagesKeyMissing(key) == ~Truthy(key)

\* request.json() settled: validation, the API key check, the contents array
\* and the call of fetch(), up to the await on it.
OnRequestPostParsed ==
    /\ pc = "json"
    /\ UNCHANGED clientVars
    /\ variant = "pages"
    /\ UNCHANGED <<variant, method, body, apiKey, upstream, ubody>>
    /\ IF body.kind = "unparsable"
       THEN /\ Respond(400, corsHeaders, ErrorBody("Invalid JSON body"))
            /\ UNCHANGED <<contents, calls>>
       ELSE IF body.kind = "null"
       THEN \* destructuring null throws a TypeError outside any try block
            /\ Crash
            /\ UNCHANGED <<contents, calls>>
       ELSE IF PagesMessageInvalid(body.message)
       THEN /\ Respond(400, corsHeaders,
                       ErrorBody("Missing or invalid \"message\" field"))
            /\ UNCHANGED <<contents, calls>>
       ELSE IF PagesKeyMissing(apiKey)
       THEN /\ Respond(500, corsHeaders,
                       ErrorBody("Server configuration error: missing API key (API_KEY_caffine)"))
            /\ UNCHANGED <<contents, calls>>
       ELSE IF PagesHistoryThrows(HistoryOrDefault(body.history))
       THEN /\ Crash
            /\ UNCHANGED <<contents, calls>>
       ELSE /\ contents' = PagesContents(body.message,
                                         HistoryOrDefault(body.history),
                                         Default(body.systemPrompt, Str("")))
            /\ calls' = calls + 1
            /\ pc' = "fetch"
            /\ UNCHANGED <<response, responses>>

\* The awaited fetch() settled: a rejection is answered with 502, a response
\* leads to the read of its body (text() when not ok, json() otherwise).
OnRequestPostFetched ==
    /\ pc = "fetch"
    /\ UNCHANGED clientVars
    /\ variant = "pages"
    /\ UNCHANGED <<variant, method, body, apiKey, contents, calls, ubody>>
    /\ \/ /\ upstream' = [threw |-> TRUE, status |-> 0]
          /\ Respond(502, corsHeaders,
                     [ErrorBody("Failed to reach Gemini API") EXCEPT
                          !.details = [kind |-> "raw", v |-> NetworkErrorMessage]])
       \/ /\ \E s \in UpstreamStatuses : upstream' = [threw |-> FALSE, status |-> s]
          /\ pc' = "read"
          /\ UNCHANGED <<response, responses>>

\* try { errJson = JSON.parse(errText) } catch { errJson = { raw: errText } }.
PagesErrorDetails(b) ==
    IF b.json THEN [kind |-> "json", v |-> b.text] ELSE [kind |-> "raw", v |-> b.text]

\* candidate?.content?.parts?.[0]?.text.
PagesReply(b) == IF b.json /\ ~b.isNull /\ b.hasCandidate THEN b.partText ELSE Undefined

\* candidate?.finishReason || 'UNKNOWN'.
PagesFinishReason(b) ==
    IF b.json /\ ~b.isNull /\ b.hasCandidate /\ Truthy(b.finishReason)
    THEN TextOf(b.finishReason) ELSE "UNKNOWN"

\* The status the error response carries: geminiResponse.status.
PagesErrorStatus(status) == status

\* The read of the upstream body settled.
OnRequestPostRead ==
    /\ pc = "read"
    /\ UNCHANGED clientVars
    /\ variant = "pages"
    /\ UNCHANGED <<variant, method, body, apiKey, contents, calls, upstream>>
    /\ \E b \in UpstreamBodies :
        /\ ubody' = b
        /\ IF ~Ok(upstream.status)
           THEN IF ~b.read
                THEN \* await geminiResponse.text() rejects outside any try block
                     Crash
                ELSE Respond(PagesErrorStatus(upstream.status), corsHeaders,
                             [ErrorBody("Gemini API error") EXCEPT
                                  !.upstatus = upstream.status,
                                  !.details = PagesErrorDetails(b)])
           ELSE IF ~b.read \/ ~b.json
                THEN Respond(502, corsHeaders,
                             ErrorBody("Failed to parse Gemini response"))
                ELSE IF ~Truthy(PagesReply(b))
                THEN Respond(502, corsHeaders,
                             [ErrorBody("No reply from Gemini") EXCEPT
                                  !.finishReason = PagesFinishReason(b)])
                ELSE Respond(200, corsHeaders, ReplyBody(TextOf(PagesReply(b))))

----------------------------------------------------------------------------
(* The Worker: worker.js.                                                  *)

\* The status of a Response built without a status option.
DefaultStatus == 200

\* The status of the Worker's preflight response: none is given.
WorkerPreflightStatus == DefaultStatus

\* catch (err): the Worker's answer to any exception of its try block.
WorkerCatch(msg) == Respond(500, workerJsonHeaders, ErrorBody(msg))

\* fetch is entered: the preflight and the method check answer at once, a POST
\* awaits request.json().
WorkerFetch ==
    /\ pc = "idle"
    /\ UNCHANGED clientVars
    /\ variant' = "worker"
    /\ \E m \in {"OPTIONS", "GET", "POST"}, k \in ApiKeyValues :
        /\ method' = m
        /\ apiKey' = k
        /\ IF m = "OPTIONS"
           THEN /\ \E b \in NonObjectBodies : body' = b
                /\ Respond(WorkerPreflightStatus, preflightHeaders, EmptyBody)
           ELSE IF m # "POST"
           THEN /\ \E b \in NonObjectBodies : body' = b
                /\ Respond(405, {ContentTypeText}, TextBody("Method Not Allowed"))
           ELSE /\ \E b \in Bodies : body' = b
                /\ pc' = "json"
                /\ UNCHANGED <<response, responses>>
    /\ UNCHANGED <<contents, calls, upstream, ubody>>

\* if (!API_KEY).
WorkerKeyMissing(key) == ~Truthy(key)

\* request.json() settled inside the try block: destructuring, the API key
\* check, the contents array and the call of fetch(), up to the await on it.
WorkerParsed ==
    /\ pc = "json"
    /\ UNCHANGED clientVars
    /\ variant = "worker"
    /\ UNCHANGED <<variant, method, body, apiKey, upstream, ubody>>
    /\ IF body.kind = "unparsable"
       THEN /\ WorkerCatch(SyntaxErrorMessage)
            /\ UNCHANGED <<contents, calls>>
       ELSE IF body.kind = "null"
       THEN /\ WorkerCatch(TypeErrorMessage)
            /\ UNCHANGED <<contents, calls>>
       ELSE IF WorkerKeyMissing(apiKey)
       THEN /\ Respond(500, workerJsonHeaders, ErrorBody("API key not configured"))
            /\ UNCHANGED <<contents, calls>>
       ELSE IF WorkerHistoryThrows(HistoryOrDefault(body.history))
       THEN /\ WorkerCatch(TypeErrorMessage)
            /\ UNCHANGED <<contents, calls>>
       ELSE /\ contents' = WorkerContents(body.message, HistoryOrDefault(body.history))
            /\ calls' = calls + 1
            /\ pc' = "fetch"
            /\ UNCHANGED <<response, responses>>

\* The awaited fetch() settled: a rejection goes to the catch block, a response
\* of any status leads to response.json().
WorkerFetched ==
    /\ pc = "fetch"
    /\ UNCHANGED clientVars
    /\ variant = "worker"
    /\ UNCHANGED <<variant, method, body, apiKey, contents, calls, ubody>>
    /\ \/ /\ upstream' = [threw |-> TRUE, status |-> 0]
          /\ WorkerCatch(NetworkErrorMessage)
       \/ /\ \E s \in UpstreamStatuses : upstream' = [threw |-> FALSE, status |-> s]
          /\ pc' = "read"
          /\ UNCHANGED <<response, responses>>

\* data.candidates?.[0]?.content?.parts?.[0]?.text.
WorkerReply(b) == IF b.hasCandidate THEN b.partText ELSE Undefined

\* response.json() settled: the reply, or the fallback string, with status 200.
WorkerRead ==
    /\ pc = "read"
    /\ UNCHANGED clientVars
    /\ variant = "worker"
    /\ UNCHANGED <<variant, method, body, apiKey, contents, calls, upstream>>
    /\ \E b \in UpstreamBodies :
        /\ ubody' = b
        /\ IF ~b.read
           THEN WorkerCatch(NetworkErrorMessage)
           ELSE IF ~b.json
           THEN WorkerCatch(SyntaxErrorMessage)
           ELSE IF b.isNull
           THEN \* data.candidates on null throws a TypeError
                WorkerCatch(TypeErrorMessage)
           ELSE Respond(DefaultStatus, workerJsonHeaders,
                        ReplyBody(IF Truthy(WorkerReply(b))
                                  THEN TextOf(WorkerReply(b))
                                  ELSE WorkerFallbackReply))

----------------------------------------------------------------------------
Next ==
    \/ OnRequestOptions
    \/ OnRequestPost
    \/ OnRequestPostParsed
    \/ OnRequestPostFetched
    \/ OnRequestPostRead
    \/ WorkerFetch
    \/ WorkerParsed
    \/ WorkerFetched
    \/ WorkerRead

Spec == Init /\ [][Next]_vars

----------------------------------------------------------------------------
(* The relay's contract, stated apart from the handlers' code.             *)

ThreeCorsHeaders == {AllowOrigin, AllowMethods, AllowHeaders}

\* A message the contract accepts: a non-empty string.
MessageValid(m) == m.t = "string" /\ m.v # ""

\* A Turn of the data model: a role string and a sequence of parts.
ShapeValid(turn) ==
    /\ turn.t = "object"
    /\ turn.role.t = "string" /\ turn.role.v # ""
    /\ turn.parts.t = "array"

\* The last n entries of a sequence.
LastN(s, n) == IF Len(s) <= n THEN s ELSE SubSeq(s, Len(s) - n + 1, Len(s))

AsTurn(e) == [role |-> e.role, parts |-> e.parts]

\* The history turns the payload is to hold, in their order.
ExpectedHistory(h) ==
    LET kept == SelectSeq(LastN(h, HistoryLimit), ShapeValid)
    IN  [i \in 1..Len(kept) |-> AsTurn(kept[i])]

\* The priming pair: the caller's persona in the Pages Function, when it gives
\* one, and the fixed barista persona in the Worker.
ExpectedPriming ==
    IF variant = "worker"
    THEN << Turn(Str("user"), Parts(BARISTA_PROMPT)), Turn(Str("model"), Parts(WorkerAck)) >>
    ELSE IF Truthy(body.systemPrompt)
    THEN << Turn(Str("user"), Parts(body.systemPrompt.v)), Turn(Str("model"), Parts(PagesAck)) >>
    ELSE << >>

Called == calls > 0
Answered == pc = "done"
IsPost == method = "POST"
KeyAbsent == ~Truthy(apiKey)
ArrayHistory == body.history.t = "array"
ValidRequest == IsPost /\ body.kind = "object" /\ MessageValid(body.message)

\* C1: for a body with a non-empty string message and an array history, the
\* contents sent upstream are the priming pair (when a persona is configured),
\* then the shape-valid turns among the last 10 history entries in their order,
\* then one final user turn whose single part text is the message.
C1_PayloadOrder ==
    (Called /\ ValidRequest /\ ArrayHistory) =>
        contents = ExpectedPriming \o ExpectedHistory(body.history.turns)
                     \o << Turn(Str("user"), Parts(body.message.v)) >>

\* C2: a POST whose message is absent, empty or not a string is answered with
\* 400 and a missing-message error, and makes no upstream call, whatever the
\* credential, history and systemPrompt are.
C2_MissingMessage400 ==
    (IsPost /\ body.kind = "object" /\ ~MessageValid(body.message)) =>
        /\ ~Called
        /\ pc \notin {"idle", "json"} =>
              /\ Answered
              /\ response.status = 400
              /\ response.body.error = "Missing or invalid \"message\" field"

\* C3 as stated: with the API key absent, every POST, whatever its body, is
\* answered with 500 and no upstream call is attempted.
C3_AlwaysFiveHundred ==
    (IsPost /\ KeyAbsent) =>
        /\ ~Called
        /\ Answered => response.status = 500

\* C3 as amended: with the API key absent, no POST leads to an upstream call,
\* and every POST whose body parses to an object with a non-empty string
\* message is answered with 500 and a JSON error.
C3_MissingKey ==
    (IsPost /\ KeyAbsent) =>
        /\ ~Called
        /\ (ValidRequest /\ pc \notin {"idle", "json"}) =>
              /\ Answered
              /\ response.status = 500
              /\ response.body.kind = "json"
              /\ response.body.error # ""

\* C3's case: a valid POST with a history was answered 500 for want of the key.
C3_Witness ==
    /\ ValidRequest /\ KeyAbsent /\ Answered
    /\ ArrayHistory /\ Len(body.history.turns) > 0
    /\ response.status = 500
    /\ ~Called

\* C4: whatever the history is (a non-array, null or non-object entries,
\* entries missing role or parts), a valid request with the credential present
\* is not failed because of it: the handler goes on to the upstream call, and
\* the payload holds no malformed turn.
C4_MalformedNeverFail ==
    (ValidRequest /\ ~KeyAbsent /\ pc \notin {"idle", "json"}) =>
        /\ pc # "crashed"
        /\ Called
        /\ \A i \in 1..Len(contents) :
              contents[i].role.t = "string" /\ contents[i].parts.t = "array"

\* C5: when the upstream answered with a non-2xx status s, the response has
\* status s and a details field holding the upstream body, parsed when it is
\* JSON and raw otherwise.
C5_UpstreamStatus ==
    (Answered /\ Called /\ ~upstream.threw /\ ~Ok(upstream.status) /\ ubody.read) =>
        /\ response.status = upstream.status
        /\ response.body.details =
              [kind |-> IF ubody.json THEN "json" ELSE "raw", v |-> ubody.text]

\* The text of the first candidate's first part, when present and non-empty.
HasReplyText ==
    /\ ~ubody.isNull /\ ubody.hasCandidate
    /\ ubody.partText.t = "string" /\ ubody.partText.v # ""

\* The finish reason the 502 is to carry.
ExpectedFinishReason ==
    IF ~ubody.isNull /\ ubody.hasCandidate /\ ubody.finishReason.t = "string"
    THEN ubody.finishReason.v ELSE "UNKNOWN"

\* C6: when the upstream call succeeded (2xx, parsable JSON), the response is
\* 200 with body { reply: text } if the first candidate's first part has a
\* non-empty text, and otherwise 502 with the candidate's finishReason, or
\* "UNKNOWN" when the candidate or its finishReason is absent.
C6_NoReply502 ==
    (pc \in {"done", "crashed"} /\ ubody # NoUBody
        /\ Ok(upstream.status) /\ ubody.read /\ ubody.json) =>
        /\ Answered
        /\ IF HasReplyText
           THEN response.status = 200 /\ response.body = ReplyBody(ubody.partText.v)
           ELSE /\ response.status = 502
                /\ response.body.finishReason = ExpectedFinishReason

\* C7: an OPTIONS request is answered with 204, an empty body and exactly the
\* three CORS headers.
C7_Preflight204 ==
    (method = "OPTIONS" /\ pc # "idle") =>
        /\ Answered
        /\ response.status = 204
        /\ response.body.kind = "empty"
        /\ response.headers = ThreeCorsHeaders

\* C8: every response carries the three CORS headers.
C8_CorsEverywhere ==
    Answered => ThreeCorsHeaders \subseteq response.headers

\* What went wrong with an answered POST, by origin, in the contract's order.
UpstreamTrouble ==
    \/ upstream.threw
    \/ ~Ok(upstream.status)
    \/ ~ubody.read \/ ~ubody.json
    \/ ~HasReplyText

\* C9: a failure is answered with a JSON error whose status tells its origin:
\* 4xx for the caller's mistakes (unparsable body, missing message), 500 for a
\* missing credential and for nothing else, 502 for upstream trouble.
C9_StatusByOrigin ==
    (Answered /\ IsPost) =>
        /\ (~KeyAbsent /\ (body.kind = "unparsable"
                            \/ (body.kind = "object" /\ ~MessageValid(body.message))))
              => /\ response.status \in 400..499
                 /\ response.body.kind = "json" /\ response.body.error # ""
        /\ (ValidRequest /\ KeyAbsent)
              => response.status = 500 /\ response.body.error # ""
        /\ (ValidRequest /\ ~KeyAbsent /\ UpstreamTrouble)
              => /\ response.status = 502
                 /\ response.body.kind = "json" /\ response.body.error # ""
        /\ response.status = 500 => KeyAbsent

\* C10: no POST, whatever its body, history and upstream, ends in an uncaught
\* exception, and the handler returns one response, never more.
C10_OneResponse ==
    /\ pc # "crashed"
    /\ responses <= 1
    /\ Answered <=> responses = 1

\* C11: a request issues at most one upstream call, and exactly one when its
\* body parses, its message is valid and the credential is present; once the
\* attempt failed (transport failure, non-2xx status, unparsable body, no reply
\* text) no second call is made and the caller is answered with the failure.
C11_ExactlyOneCall ==
    /\ calls <= 1
    /\ (ValidRequest /\ ~KeyAbsent /\ pc \notin {"idle", "json"}) => calls = 1
    /\ (Called /\ pc \in {"done", "crashed"} /\ UpstreamTrouble) =>
          /\ calls = 1
          /\ Answered
          /\ response.status # 200
          /\ response.body.error # ""

----------------------------------------------------------------------------
(* The chat widget: handleSend, appendMsg and getBotResponse.  Several     *)
(* getBotResponse activations may be suspended at once, each at its await  *)
(* of fetch() or of res.json(); the browser runs one continuation at a     *)
(* time, to its next await or its end.                                     *)

\* What the visitor types, and input.value.trim() of it.
Inputs == {"", "  ", "latte?", " flight? "}
Trim(raw) ==
    CASE raw = "  " -> ""
      [] raw = " flight? " -> "flight?"
      [] OTHER -> raw

\* What res.json() settles to: a rejection, null, or an object and its reply.
NoData == [kind |-> "none", reply |-> Undefined]
DataValues ==
    { [kind |-> "reject", reply |-> Undefined],
      [kind |-> "null", reply |-> Undefined] }
    \cup { [kind |-> "object", reply |-> r] :
           r \in {Undefined, Str(""), Str("Try a flight"), Str("Sure"), Num("7")} }

ErrorMsg == "Sorry, my steam wand is acting up. Please try again in a moment!"

\* appendMsg(text, 'bot') runs formatBotText, whose text.replace throws a
\* TypeError unless text is a string.
AppendMsgThrows(text) == text.t # "string"

Bubble(sender, text) == [sender |-> sender, text |-> text]

\* The two turns pushed in the order model, user.
PushPairSwapped(history, userText, reply) ==
    Append(Append(history, Turn(Str("model"), Parts(TextOf(reply)))),
           Turn(Str("user"), Parts(userText)))

\* conversationHistory.push(user turn); conversationHistory.push(model turn).
PushPair(history, userText, reply) ==
    Append(Append(history, Turn(Str("user"), Parts(userText))),
           Turn(Str("model"), Parts(TextOf(reply))))

\* catch (err): the apology bubble; conversationHistory is not touched.
ClientCatch ==
    /\ messages' = Append(messages, Bubble("bot", ErrorMsg))
    /\ UNCHANGED conversationHistory

\* handleSend: an empty trimmed text returns at once; otherwise the user's
\* bubble is added and getBotResponse runs up to its await of fetch(), whose
\* body holds conversationHistory as it is now.
HandleSend ==
    /\ Len(botCalls) < MaxSends
    /\ UNCHANGED serverVars
    /\ \E raw \in Inputs :
        IF Trim(raw) = ""
        THEN UNCHANGED clientVars
        ELSE /\ messages' = Append(messages, Bubble("user", Trim(raw)))
             /\ botCalls' = Append(botCalls,
                                   [userText |-> Trim(raw),
                                    history |-> conversationHistory,
                                    stage |-> "fetch",
                                    data |-> NoData])
             /\ UNCHANGED conversationHistory

\* The awaited fetch() of activation i settled: a rejection goes to the catch
\* block, a response leads to the await of res.json().
FetchSettled(i) ==
    /\ botCalls[i].stage = "fetch"
    /\ UNCHANGED serverVars
    /\ \/ /\ botCalls' = [botCalls EXCEPT ![i].stage = "done",
                                          ![i].data = [kind |-> "unreachable",
                                                       reply |-> Undefined]]
          /\ ClientCatch
       \/ /\ botCalls' = [botCalls EXCEPT ![i].stage = "json"]
          /\ UNCHANGED <<conversationHistory, messages>>

\* The awaited res.json() of activation i settled: a truthy reply is shown,
\* spoken and pushed with the user's text; anything else, and an exception of
\* appendMsg, ends in the catch block.
JsonSettled(i) ==
    /\ botCalls[i].stage = "json"
    /\ UNCHANGED serverVars
    /\ \E d \in DataValues :
        /\ botCalls' = [botCalls EXCEPT ![i].stage = "done", ![i].data = d]
        /\ IF d.kind = "object" /\ Truthy(d.reply)
           THEN IF AppendMsgThrows(d.reply)
                THEN ClientCatch
                ELSE /\ messages' = Append(messages, Bubble("bot", d.reply.v))
                     /\ conversationHistory' =
                            PushPair(conversationHistory, botCalls[i].userText, d.reply)
           ELSE ClientCatch

ClientNext ==
    \/ HandleSend
    \/ \E i \in DOMAIN botCalls : FetchSettled(i)
    \/ \E i \in DOMAIN botCalls : JsonSettled(i)

ClientSpec == Init /\ [][ClientNext]_vars

----------------------------------------------------------------------------
(* The chat widget's history.                                              *)

UserTurn(text) == [role |-> Str("user"), parts |-> Parts(text)]
ModelTurn(text) == [role |-> Str("model"), parts |-> Parts(text)]

\* conversationHistory is a run of (user turn, model turn) pairs, each the text
\* and the reply of one finished call.
PairsOnly ==
    /\ Len(conversationHistory) % 2 = 0
    /\ \A k \in 1..Len(conversationHistory) :
          conversationHistory[k].role.v = IF k % 2 = 1 THEN "user" ELSE "model"
    /\ \A k \in 1..(Len(conversationHistory) \div 2) :
          \E i \in DOMAIN botCalls :
              /\ botCalls[i].stage = "done"
              /\ conversationHistory[2 * k - 1] = UserTurn(botCalls[i].userText)
              /\ botCalls[i].data.reply.t = "string"
              /\ conversationHistory[2 * k] = ModelTurn(botCalls[i].data.reply.v)

\* In this step the response of call i arrived: its res.json() settled.
Arrived(i) == botCalls[i].stage = "json" /\ botCalls'[i].stage = "done"
\* In this step the fetch of call i failed.
Unreachable(i) == botCalls[i].stage = "fetch" /\ botCalls'[i].stage = "done"

HasTruthyReply(d) == d.kind = "object" /\ Truthy(d.reply)
HasStringReply(d) == d.kind = "object" /\ d.reply.t = "string" /\ d.reply.v # ""

GrowsByPairOf(i) ==
    conversationHistory' =
        conversationHistory \o << UserTurn(botCalls[i].userText),
                                  ModelTurn(TextOf(botCalls'[i].data.reply)) >>

HistoryUntouched == conversationHistory' = conversationHistory

\* C12 as stated: conversationHistory is always a run of (user, model) pairs;
\* it grows by the call's own pair when a response with a truthy reply
\* arrives, and is unchanged when a call fails and when a message is sent.
C12_TruthyReplyGrows ==
    /\ []PairsOnly
    /\ [][ /\ \A i \in DOMAIN botCalls :
                /\ (Arrived(i) /\ HasTruthyReply(botCalls'[i].data)) => GrowsByPairOf(i)
                /\ (Arrived(i) /\ ~HasTruthyReply(botCalls'[i].data)) => HistoryUntouched
                /\ Unreachable(i) => HistoryUntouched
           /\ Len(botCalls') > Len(botCalls) => HistoryUntouched ]_vars

\* C12 as amended: conversationHistory is always a run of (user, model) pairs;
\* it grows by the call's own pair when a response with a non-empty string
\* reply arrives, and is unchanged when a call fails (network error,
\* unparsable body, a body without reply, a reply that is no string) and when
\* a message is sent.
C12_PairedHistory ==
    /\ []PairsOnly
    /\ [][ /\ \A i \in DOMAIN botCalls :
                /\ (Arrived(i) /\ HasStringReply(botCalls'[i].data)) => GrowsByPairOf(i)
                /\ (Arrived(i) /\ ~HasStringReply(botCalls'[i].data)) => HistoryUntouched
                /\ Unreachable(i) => HistoryUntouched
           /\ Len(botCalls') > Len(botCalls) => HistoryUntouched ]_vars

\* C12's case: with three calls in flight at once, the second call's reply
\* arrived before the first call's, and another call failed.
C12_Witness ==
    /\ Len(botCalls) >= 3
    /\ \A i \in 1..3 : botCalls[i].history = <<>>
    /\ Len(conversationHistory) = 4
    /\ conversationHistory[1] = UserTurn(botCalls[2].userText)
    /\ conversationHistory[3] = UserTurn(botCalls[1].userText)
    /\ botCalls[1].userText # botCalls[2].userText
    /\ botCalls[3].stage = "done" /\ ~HasStringReply(botCalls[3].data)

====
